---- MODULE Spec2Model ----
(***************************************************************************)
(* State-machine model of the music-catalog API (backend/songs/views.py).  *)
(* Every HTTP request is one atomic step: the handler reads the database   *)
(* `db`, computes a response status and the new database.  `pre` holds the *)
(* database as it was before the last request and `last` the last request  *)
(* with its response, so that the contract of a handler is a predicate on  *)
(* (pre, last, db).  Where requests are served side by side, a handler is  *)
(* one step per database statement and `running` holds, per worker, the    *)
(* request it is serving and the statement it has reached.                 *)
(***************************************************************************)
EXTENDS Integers, FiniteSets, Sequences, TLC

VARIABLES db, pre, last, running

vars == <<db, pre, last, running>>

----------------------------------------------------------------------------
(* Bounds of the model *)

MaxUsers == 3
MaxSongs == 1
MaxAlbums == 1
MaxPlaylists == 2
MaxTokens == 2
MaxWorkers == 2

----------------------------------------------------------------------------
(* Identifiers and payload values *)

Anonymous == 0
None == 0

UserIds == 1..MaxUsers
SongIds == 1..MaxSongs
AlbumIds == 1..MaxAlbums
PlaylistIds == 1..MaxPlaylists
Workers == 1..MaxWorkers

Kinds == {"song", "album"}
Ids(kind) == IF kind = "song" THEN SongIds ELSE AlbumIds
Releases == {<<"song", i>> : i \in SongIds} \cup {<<"album", i>> : i \in AlbumIds}

Missing == ""
Titles == {"Old title", "New title"}
Usernames == {"old_user", "old_user_2", "new_user"}
Passwords == {"old_password", "new_password", "pass"}

HTTP_200_OK == 200
HTTP_201_CREATED == 201
HTTP_204_NO_CONTENT == 204
HTTP_400_BAD_REQUEST == 400
HTTP_401_UNAUTHORIZED == 401
HTTP_403_FORBIDDEN == 403
HTTP_404_NOT_FOUND == 404
HTTP_405_METHOD_NOT_ALLOWED == 405

SAFE_METHODS == {"GET", "HEAD", "OPTIONS"}

----------------------------------------------------------------------------
(* The database: one field per column or relationship table *)

\* The password column of a row that is not there
NoPassword == <<>>

EmptyDb ==
  [ users |-> {},
    username |-> [u \in UserIds |-> Missing],
    password |-> [u \in UserIds |-> NoPassword],
    is_active |-> [u \in UserIds |-> FALSE],
    tokens |-> <<>>,
    releases |-> {},
    title |-> [r \in Releases |-> Missing],
    artists |-> [r \in Releases |-> {}],
    requested_artists |-> [r \in Releases |-> {}],
    album |-> [s \in SongIds |-> None],
    playlists |-> {},
    pl_title |-> [p \in PlaylistIds |-> Missing],
    owner |-> [p \in PlaylistIds |-> None],
    creator |-> [p \in PlaylistIds |-> None],
    pl_songs |-> [p \in PlaylistIds |-> {}],
    next_id |-> [t \in {"user", "song", "album", "playlist"} |-> 1] ]

\* The body of a response, as far as the model reads it: the id of the user
\* under "user", the token handed out, the field-keyed error messages, and the
\* fields of every user representation in it, as <<user, field>> pairs
NoBody == [user |-> None, token |-> None, errors |-> {}, shown |-> {}]

ResponseWith(status, db1, body) == [status |-> status, db |-> db1, body |-> body]

Response(status, db1) == ResponseWith(status, db1, NoBody)

Request(user, method, data) == [user |-> user, method |-> method, data |-> data]

NoData == [empty |-> TRUE]

----------------------------------------------------------------------------
(* Authorization policies (permissions.py) and the framework's dispatch *)

IsAuthenticated(request) == request.user # Anonymous

\* A denied request is 401 when no identity was established, 403 otherwise
PermissionDenied(request) ==
  IF IsAuthenticated(request) THEN HTTP_403_FORBIDDEN ELSE HTTP_401_UNAUTHORIZED

\* View-level check of a permission class, before the object is looked up
has_permission(perm, request) ==
  CASE perm = "IsArtistOrReadOnly" ->
         request.method \in SAFE_METHODS \/ IsAuthenticated(request)
    [] perm = "IsRequestedArtist" -> IsAuthenticated(request)
    [] perm = "IsPlaylistOwner" -> IsAuthenticated(request)
    [] perm = "IsUserOrReadOnly" -> TRUE
    [] perm = "IsAuthenticatedOrReadOnly" ->
         request.method \in SAFE_METHODS \/ IsAuthenticated(request)
    [] OTHER -> TRUE

\* Object-level check of a permission class; obj is a release key, a playlist
\* id or a user id according to the class
has_object_permission(db0, perm, request, obj) ==
  CASE perm = "IsArtistOrReadOnly" ->
         request.method \in SAFE_METHODS \/ request.user \in db0.artists[obj]
    [] perm = "IsRequestedArtist" -> request.user \in db0.requested_artists[obj]
    [] perm = "IsPlaylistOwner" -> db0.owner[obj] = request.user
    [] perm = "IsUserOrReadOnly" ->
         request.method \in SAFE_METHODS \/ obj = request.user
    [] OTHER -> TRUE

\* check_permissions at the start of every view: 200 when every class allows
check_permissions(perms, request) ==
  IF \A perm \in perms : has_permission(perm, request)
    THEN HTTP_200_OK
    ELSE PermissionDenied(request)

\* get_object: look obj up in the view's queryset, then check_object_permissions
get_object(db0, perms, queryset, request, obj) ==
  IF obj \notin queryset THEN HTTP_404_NOT_FOUND
  ELSE IF \A perm \in perms : has_object_permission(db0, perm, request, obj)
    THEN HTTP_200_OK
    ELSE PermissionDenied(request)

\* A detail view: check_permissions, then get_object
retrieve_object(db0, perms, queryset, request, obj) ==
  IF check_permissions(perms, request) # HTTP_200_OK
    THEN check_permissions(perms, request)
    ELSE get_object(db0, perms, queryset, request, obj)

----------------------------------------------------------------------------
(* Collaboration helpers (helpers.py) *)

add_artist_to_requested(db0, entity, artist, user) ==
  IF user \notin db0.artists[entity] THEN Response(HTTP_403_FORBIDDEN, db0)
  ELSE Response(HTTP_200_OK,
         [db0 EXCEPT !.requested_artists[entity] = @ \cup {artist}])

remove_artist_from_requested(db0, entity, artist, user) ==
  IF user \notin db0.artists[entity] THEN Response(HTTP_403_FORBIDDEN, db0)
  ELSE Response(HTTP_200_OK,
         [db0 EXCEPT !.requested_artists[entity] = @ \ {artist}])

confirm_user_as_artist(db0, entity, user) ==
  Response(HTTP_200_OK,
    [db0 EXCEPT !.requested_artists[entity] = @ \ {user},
                !.artists[entity] = @ \cup {user}])

remove_user_as_artist(db0, entity, user) ==
  Response(HTTP_200_OK, [db0 EXCEPT !.artists[entity] = @ \ {user}])

add_song_to_playlist(db0, playlist, song) ==
  Response(HTTP_200_OK, [db0 EXCEPT !.pl_songs[playlist] = @ \cup {song}])

remove_song_from_playlist(db0, playlist, song) ==
  Response(HTTP_200_OK, [db0 EXCEPT !.pl_songs[playlist] = @ \ {song}])

----------------------------------------------------------------------------
(* Song and album views: ReleaseMixin, SongViewSet, AlbumViewSet *)

\* Variant: any authenticated user may write
release_permission_classes_authenticated == {"IsAuthenticatedOrReadOnly"}

\* permission_classes of SongViewSet and AlbumViewSet
release_permission_classes == {"IsArtistOrReadOnly"}

\* Variant: the action keeps the viewset's permission classes
confirm_permission_classes_inherited == {"IsArtistOrReadOnly"}

\* permission_classes given to the confirm_current_user_as_artist action
confirm_permission_classes == {"IsRequestedArtist"}

\* queryset of SongViewSet / AlbumViewSet: every stored release of the kind
release_queryset(db0, kind) == {r \in db0.releases : r[1] = kind}

\* SongSerializer / AlbumSerializer validation of the fields the model keeps:
\* title is required unless the update is partial; a song's album, when given,
\* must exist and have the acting user among its artists
validate_release(db0, request, kind, partial) ==
  /\ partial \/ request.data.title # Missing
  /\ \/ kind = "album"
     \/ request.data.album = None
     \/ /\ <<"album", request.data.album>> \in db0.releases
        /\ request.user \in db0.artists[<<"album", request.data.album>>]

\* serializer.save() of validated data onto the stored release
save_release(db0, request, entity) ==
  [db0 EXCEPT
     !.title[entity] =
        IF request.data.title # Missing THEN request.data.title ELSE @,
     !.album =
        IF entity[1] = "song" /\ request.data.album # None
          THEN [@ EXCEPT ![entity[2]] = request.data.album]
          ELSE @]

\* Variant: the serializer is saved and the current user is not added
release_perform_create_unowned(db0, request, kind) ==
  LET entity_instance == <<kind, db0.next_id[kind]>>
  IN  save_release(
        [db0 EXCEPT !.releases = @ \cup {entity_instance},
                    !.next_id[kind] = @ + 1],
        request, entity_instance)

\* ReleaseMixin.perform_create
release_perform_create(db0, request, kind) ==
  LET entity_instance == <<kind, db0.next_id[kind]>>
      saved == save_release(
                 [db0 EXCEPT !.releases = @ \cup {entity_instance},
                             !.next_id[kind] = @ + 1],
                 request, entity_instance)
  IN  [saved EXCEPT !.artists[entity_instance] = @ \cup {request.user}]

release_create(db0, request, kind) ==
  LET allowed == check_permissions(release_permission_classes, request)
  IN  IF allowed # HTTP_200_OK THEN Response(allowed, db0)
      ELSE IF ~validate_release(db0, request, kind, FALSE)
        THEN Response(HTTP_400_BAD_REQUEST, db0)
      ELSE Response(HTTP_201_CREATED, release_perform_create(db0, request, kind))

\* Variant: the payload is saved without serializer.is_valid()
release_update_unvalidated(db0, request, kind, pk) ==
  LET entity == <<kind, pk>>
      found == retrieve_object(db0, release_permission_classes,
                               release_queryset(db0, kind), request, entity)
  IN  IF found # HTTP_200_OK THEN Response(found, db0)
      ELSE Response(HTTP_200_OK, save_release(db0, request, entity))

\* UpdateModelMixin.update / partial_update of SongViewSet and AlbumViewSet
release_update(db0, request, kind, pk) ==
  LET entity == <<kind, pk>>
      found == retrieve_object(db0, release_permission_classes,
                               release_queryset(db0, kind), request, entity)
  IN  IF found # HTTP_200_OK THEN Response(found, db0)
      ELSE IF ~validate_release(db0, request, kind, request.method = "PATCH")
        THEN Response(HTTP_400_BAD_REQUEST, db0)
      ELSE Response(HTTP_200_OK, save_release(db0, request, entity))

\* Row removal of a song with its relationship rows
delete_song(db0, s) ==
  [db0 EXCEPT !.releases = @ \ {<<"song", s>>},
              !.title[<<"song", s>>] = Missing,
              !.artists[<<"song", s>>] = {},
              !.requested_artists[<<"song", s>>] = {},
              !.album[s] = None,
              !.pl_songs = [p \in PlaylistIds |-> @[p] \ {s}]]

\* Row removal of an album; its songs are deleted with it (CASCADE) or keep
\* living without an album (SET_NULL), as the foreign key's on_delete says
delete_album(db0, a, on_delete) ==
  LET tracks == {s \in SongIds : <<"song", s>> \in db0.releases /\ db0.album[s] = a}
      gone == [db0 EXCEPT !.releases = @ \ {<<"album", a>>},
                          !.title[<<"album", a>>] = Missing,
                          !.artists[<<"album", a>>] = {},
                          !.requested_artists[<<"album", a>>] = {}]
      RECURSIVE drop(_, _)
      drop(d, ss) == IF ss = {} THEN d
                     ELSE LET s == CHOOSE x \in ss : TRUE
                          IN  drop(delete_song(d, s), ss \ {s})
  IN  IF on_delete = "CASCADE" THEN drop(gone, tracks)
      ELSE [gone EXCEPT !.album = [s \in SongIds |-> IF s \in tracks THEN None ELSE @[s]]]

release_destroy(db0, request, kind, pk, on_delete) ==
  LET entity == <<kind, pk>>
      found == retrieve_object(db0, release_permission_classes,
                               release_queryset(db0, kind), request, entity)
  IN  IF found # HTTP_200_OK THEN Response(found, db0)
      ELSE Response(HTTP_204_NO_CONTENT,
             IF kind = "song" THEN delete_song(db0, pk)
             ELSE delete_album(db0, pk, on_delete))

\* Variant: POST removes and DELETE adds
manage_requested_artists_swapped(db0, request, kind, pk) ==
  LET entity == <<kind, pk>>
      found == retrieve_object(db0, release_permission_classes,
                               release_queryset(db0, kind), request, entity)
      artist_id == request.data.artist_id
  IN  IF found # HTTP_200_OK THEN Response(found, db0)
      ELSE IF artist_id = None THEN Response(HTTP_400_BAD_REQUEST, db0)
      ELSE IF artist_id \notin db0.users THEN Response(HTTP_404_NOT_FOUND, db0)
      ELSE IF request.method = "DELETE"
        THEN add_artist_to_requested(db0, entity, artist_id, request.user)
      ELSE remove_artist_from_requested(db0, entity, artist_id, request.user)

\* Variant: a candidate who is already requested is refused
manage_requested_artists_once(db0, request, kind, pk) ==
  LET entity == <<kind, pk>>
      found == retrieve_object(db0, release_permission_classes,
                               release_queryset(db0, kind), request, entity)
      artist_id == request.data.artist_id
  IN  IF found # HTTP_200_OK THEN Response(found, db0)
      ELSE IF artist_id = None THEN Response(HTTP_400_BAD_REQUEST, db0)
      ELSE IF artist_id \notin db0.users THEN Response(HTTP_404_NOT_FOUND, db0)
      ELSE IF request.method = "POST"
        THEN (IF artist_id \in db0.requested_artists[entity]
                THEN Response(HTTP_400_BAD_REQUEST, db0)
                ELSE add_artist_to_requested(db0, entity, artist_id, request.user))
      ELSE remove_artist_from_requested(db0, entity, artist_id, request.user)

\* Variant: the DELETE branch answers without calling the helper
manage_requested_artists_keep(db0, request, kind, pk) ==
  LET entity == <<kind, pk>>
      found == retrieve_object(db0, release_permission_classes,
                               release_queryset(db0, kind), request, entity)
      artist_id == request.data.artist_id
  IN  IF found # HTTP_200_OK THEN Response(found, db0)
      ELSE IF artist_id = None THEN Response(HTTP_400_BAD_REQUEST, db0)
      ELSE IF artist_id \notin db0.users THEN Response(HTTP_404_NOT_FOUND, db0)
      ELSE IF request.method = "POST"
        THEN add_artist_to_requested(db0, entity, artist_id, request.user)
      ELSE Response(HTTP_200_OK, db0)

\* Variant: the body is read before the release is looked up
manage_requested_artists_body_first(db0, request, kind, pk) ==
  LET entity == <<kind, pk>>
      found == retrieve_object(db0, release_permission_classes,
                               release_queryset(db0, kind), request, entity)
      artist_id == request.data.artist_id
  IN  IF artist_id = None THEN Response(HTTP_400_BAD_REQUEST, db0)
      ELSE IF artist_id \notin db0.users THEN Response(HTTP_404_NOT_FOUND, db0)
      ELSE IF found # HTTP_200_OK THEN Response(found, db0)
      ELSE IF request.method = "POST"
        THEN add_artist_to_requested(db0, entity, artist_id, request.user)
      ELSE remove_artist_from_requested(db0, entity, artist_id, request.user)

\* ReleaseMixin.manage_requested_artists
manage_requested_artists(db0, request, kind, pk) ==
  LET entity == <<kind, pk>>
      found == retrieve_object(db0, release_permission_classes,
                               release_queryset(db0, kind), request, entity)
      artist_id == request.data.artist_id
  IN  IF found # HTTP_200_OK THEN Response(found, db0)
      ELSE IF artist_id = None THEN Response(HTTP_400_BAD_REQUEST, db0)
      ELSE IF artist_id \notin db0.users THEN Response(HTTP_404_NOT_FOUND, db0)
      ELSE IF request.method = "POST"
        THEN add_artist_to_requested(db0, entity, artist_id, request.user)
      ELSE remove_artist_from_requested(db0, entity, artist_id, request.user)

\* Variant: every invitation to the release is confirmed with the sender's
confirm_current_user_as_artist_all(db0, request, kind, pk) ==
  LET entity == <<kind, pk>>
      found == retrieve_object(db0, confirm_permission_classes,
                               release_queryset(db0, kind), request, entity)
  IN  IF found # HTTP_200_OK THEN Response(found, db0)
      ELSE Response(HTTP_200_OK,
             [db0 EXCEPT !.artists[entity] = @ \cup db0.requested_artists[entity],
                         !.requested_artists[entity] = {}])

\* ReleaseMixin.confirm_current_user_as_artist
confirm_current_user_as_artist(db0, request, kind, pk) ==
  LET entity == <<kind, pk>>
      found == retrieve_object(db0, confirm_permission_classes,
                               release_queryset(db0, kind), request, entity)
  IN  IF found # HTTP_200_OK THEN Response(found, db0)
      ELSE confirm_user_as_artist(db0, entity, request.user)

\* Variant: the last artist of a release may not leave
remove_current_user_as_artist_floor(db0, request, kind, pk) ==
  LET entity == <<kind, pk>>
      found == retrieve_object(db0, release_permission_classes,
                               release_queryset(db0, kind), request, entity)
  IN  IF found # HTTP_200_OK THEN Response(found, db0)
      ELSE IF db0.artists[entity] = {request.user}
        THEN Response(HTTP_400_BAD_REQUEST, db0)
      ELSE remove_user_as_artist(db0, entity, request.user)

remove_current_user_as_artist(db0, request, kind, pk) ==
  LET entity == <<kind, pk>>
      found == retrieve_object(db0, release_permission_classes,
                               release_queryset(db0, kind), request, entity)
  IN  IF found # HTTP_200_OK THEN Response(found, db0)
      ELSE remove_user_as_artist(db0, entity, request.user)

----------------------------------------------------------------------------
(* Playlist views: PlaylistViewSet *)

playlist_permission_classes == {"IsPlaylistOwner"}

\* Variant: the queryset is not narrowed to the caller's playlists
playlist_get_queryset_all(db0, request) == db0.playlists

\* get_queryset: the playlists the caller owns
playlist_get_queryset(db0, request) ==
  {p \in db0.playlists : db0.owner[p] = request.user}

\* PlaylistSerializer validation: title is required unless the update is partial
validate_playlist(request, partial) == partial \/ request.data.title # Missing

\* serializer.save() on update: the title is written, a supplied owner is dropped
save_playlist(db0, request, playlist) ==
  [db0 EXCEPT !.pl_title[playlist] =
     IF request.data.title # Missing THEN request.data.title ELSE @]

\* Variant: the owner is taken from the payload when it has one
playlist_perform_create_payload_owner(db0, request) ==
  LET playlist == db0.next_id["playlist"]
  IN  [db0 EXCEPT !.playlists = @ \cup {playlist},
                  !.next_id["playlist"] = @ + 1,
                  !.pl_title[playlist] = request.data.title,
                  !.owner[playlist] = IF request.data.owner # None
                                        THEN request.data.owner
                                        ELSE request.user]

\* perform_create: serializer.save(owner=self.request.user)
playlist_perform_create(db0, request) ==
  LET playlist == db0.next_id["playlist"]
  IN  [db0 EXCEPT !.playlists = @ \cup {playlist},
                  !.next_id["playlist"] = @ + 1,
                  !.pl_title[playlist] = request.data.title,
                  !.owner[playlist] = request.user]

\* create; `creator` remembers who sent the request that stored the playlist
playlist_create(db0, request) ==
  LET allowed == check_permissions(playlist_permission_classes, request)
  IN  IF allowed # HTTP_200_OK THEN Response(allowed, db0)
      ELSE IF ~validate_playlist(request, FALSE)
        THEN Response(HTTP_400_BAD_REQUEST, db0)
      ELSE Response(HTTP_201_CREATED,
             [playlist_perform_create(db0, request) EXCEPT
                !.creator[db0.next_id["playlist"]] = request.user])

playlist_retrieve(db0, request, pk) ==
  Response(retrieve_object(db0, playlist_permission_classes,
                           playlist_get_queryset(db0, request), request, pk),
           db0)

playlist_update(db0, request, pk) ==
  LET found == retrieve_object(db0, playlist_permission_classes,
                               playlist_get_queryset(db0, request), request, pk)
  IN  IF found # HTTP_200_OK THEN Response(found, db0)
      ELSE IF ~validate_playlist(request, request.method = "PATCH")
        THEN Response(HTTP_400_BAD_REQUEST, db0)
      ELSE Response(HTTP_200_OK, save_playlist(db0, request, pk))

playlist_destroy(db0, request, pk) ==
  LET found == retrieve_object(db0, playlist_permission_classes,
                               playlist_get_queryset(db0, request), request, pk)
  IN  IF found # HTTP_200_OK THEN Response(found, db0)
      ELSE Response(HTTP_204_NO_CONTENT,
             [db0 EXCEPT !.playlists = @ \ {pk},
                         !.pl_title[pk] = Missing,
                         !.owner[pk] = None,
                         !.creator[pk] = None,
                         !.pl_songs[pk] = {}])

\* Variant: POST removes and DELETE adds
manage_songs_swapped(db0, request, pk) ==
  LET found == retrieve_object(db0, playlist_permission_classes,
                               playlist_get_queryset(db0, request), request, pk)
      song_id == request.data.song_id
  IN  IF found # HTTP_200_OK THEN Response(found, db0)
      ELSE IF song_id = None THEN Response(HTTP_400_BAD_REQUEST, db0)
      ELSE IF <<"song", song_id>> \notin db0.releases
        THEN Response(HTTP_404_NOT_FOUND, db0)
      ELSE IF request.method = "DELETE"
        THEN add_song_to_playlist(db0, pk, song_id)
      ELSE remove_song_from_playlist(db0, pk, song_id)

\* Variant: the song is looked up without the check that song_id was given
manage_songs_unrequired(db0, request, pk) ==
  LET found == retrieve_object(db0, playlist_permission_classes,
                               playlist_get_queryset(db0, request), request, pk)
      song_id == request.data.song_id
  IN  IF found # HTTP_200_OK THEN Response(found, db0)
      ELSE IF <<"song", song_id>> \notin db0.releases
        THEN Response(HTTP_404_NOT_FOUND, db0)
      ELSE IF request.method = "POST"
        THEN add_song_to_playlist(db0, pk, song_id)
      ELSE remove_song_from_playlist(db0, pk, song_id)

\* PlaylistViewSet.manage_songs
manage_songs(db0, request, pk) ==
  LET found == retrieve_object(db0, playlist_permission_classes,
                               playlist_get_queryset(db0, request), request, pk)
      song_id == request.data.song_id
  IN  IF found # HTTP_200_OK THEN Response(found, db0)
      ELSE IF song_id = None THEN Response(HTTP_400_BAD_REQUEST, db0)
      ELSE IF <<"song", song_id>> \notin db0.releases
        THEN Response(HTTP_404_NOT_FOUND, db0)
      ELSE IF request.method = "POST"
        THEN add_song_to_playlist(db0, pk, song_id)
      ELSE remove_song_from_playlist(db0, pk, song_id)

----------------------------------------------------------------------------
(* Accounts: the user serializers, RegistrationAPI, LoginAPI, UserViewSet *)

\* The stored form of a password is a hash, never the password itself
make_password(raw) == <<"pbkdf2_sha256", raw>>

check_password(raw, encoded) == encoded = make_password(raw)

MinPasswordLength == 8

\* The user rows that carry the given username, active or not
UsersNamed(db0, username) == {u \in db0.users : db0.username[u] = username}

\* UserSerializer on registration: the field-keyed errors of a payload.  The
\* confirmation is compared once every single field has passed
validate_user(db0, data) ==
  LET fields ==
        (IF data.username = Missing
           THEN {<<"username", "This field is required.">>}
         ELSE IF UsersNamed(db0, data.username) # {}
           THEN {<<"username", "A user with that username already exists.">>}
         ELSE {})
        \cup
        (IF data.password = Missing
           THEN {<<"password", "This field is required.">>}
         ELSE IF Len(data.password) < MinPasswordLength
           THEN {<<"password", "This password is too short. It must contain at least 8 characters.">>}
         ELSE {})
        \cup
        (IF data.password_confirmation = Missing
           THEN {<<"password_confirmation", "This field is required.">>}
         ELSE {})
        \cup
        (IF data.birth_date = "tomorrow"
           THEN {<<"birth_date", "Ensure this value is less than or equal to today.">>}
         ELSE {})
  IN  IF fields # {} THEN fields
      ELSE IF data.password_confirmation # data.password
        THEN {<<"password_confirmation", "Password confirmation does not match password.">>}
      ELSE {}

\* UserSerializer.save on registration: a new active row with the hashed password
create_user(db0, data) ==
  LET user == db0.next_id["user"]
  IN  [db0 EXCEPT !.users = @ \cup {user},
                  !.username[user] = data.username,
                  !.password[user] = make_password(data.password),
                  !.is_active[user] = TRUE,
                  !.next_id["user"] = @ + 1]

\* AuthToken.objects.create(user): a new row of the token table, bound to user;
\* the token handed out is the key of that row
create_token(db0, user) == [db0 EXCEPT !.tokens = Append(@, user)]

token_of(db1) == Len(db1.tokens)

\* UserSerializer.to_representation: the fields of user as shown to the
\* requester; the password is write-only, the email is for its owner alone
to_representation(user, requester) ==
  {<<user, field>> : field \in {"id", "username"} \cup
                               (IF requester = user THEN {"email"} ELSE {})}

\* The body of Register and Login: {"user": UserSerializer(user).data, "token": ...}
user_and_token(user, request, token) ==
  [NoBody EXCEPT !.user = user, !.token = token,
                 !.shown = to_representation(user, request.user)]

\* Variant: the account is created but no token is issued
registration_post_no_token(db0, request) ==
  LET errors == validate_user(db0, request.data)
      user == db0.next_id["user"]
  IN  IF errors # {}
        THEN ResponseWith(HTTP_400_BAD_REQUEST, db0, [NoBody EXCEPT !.errors = errors])
      ELSE ResponseWith(HTTP_201_CREATED, create_user(db0, request.data),
                        user_and_token(user, request, None))

\* Variant: the serializer is saved and the token issued whatever is_valid found
registration_post_unvalidated(db0, request) ==
  LET errors == validate_user(db0, request.data)
      user == db0.next_id["user"]
      db1 == create_token(create_user(db0, request.data), user)
  IN  IF errors # {}
        THEN ResponseWith(HTTP_400_BAD_REQUEST, db1, [NoBody EXCEPT !.errors = errors])
      ELSE ResponseWith(HTTP_201_CREATED, db1,
                        user_and_token(user, request, token_of(db1)))

\* RegistrationAPI.post; authentication_classes is empty, the caller is nobody
registration_post(db0, request) ==
  LET errors == validate_user(db0, request.data)
      user == db0.next_id["user"]
      db1 == create_token(create_user(db0, request.data), user)
  IN  IF errors # {}
        THEN ResponseWith(HTTP_400_BAD_REQUEST, db0, [NoBody EXCEPT !.errors = errors])
      ELSE ResponseWith(HTTP_201_CREATED, db1,
                        user_and_token(user, request, token_of(db1)))

\* authenticate(username, password): the active user with that username whose
\* stored hash matches, or None
authenticate(db0, username, password) ==
  LET found == {u \in UsersNamed(db0, username) :
                  db0.is_active[u] /\ check_password(password, db0.password[u])}
  IN  IF found = {} THEN None ELSE CHOOSE u \in found : TRUE

\* LoginUserSerializer: required fields, then the credentials
validate_login(db0, data) ==
  LET fields ==
        (IF data.username = Missing
           THEN {<<"username", "This field is required.">>} ELSE {})
        \cup
        (IF data.password = Missing
           THEN {<<"password", "This field is required.">>} ELSE {})
  IN  IF fields # {} THEN fields
      ELSE IF authenticate(db0, data.username, data.password) = None
        THEN {<<"non_field_errors", "Invalid Details.">>}
      ELSE {}

\* Variant: the token is created for the named user before the credentials
\* are checked
login_post_token_first(db0, request) ==
  LET errors == validate_login(db0, request.data)
      named == UsersNamed(db0, request.data.username)
      user == authenticate(db0, request.data.username, request.data.password)
      db1 == IF named = {} THEN db0
             ELSE create_token(db0, CHOOSE u \in named : TRUE)
  IN  IF errors # {}
        THEN ResponseWith(HTTP_400_BAD_REQUEST, db1, [NoBody EXCEPT !.errors = errors])
      ELSE ResponseWith(HTTP_200_OK, db1,
                        user_and_token(user, request, token_of(db1)))

\* LoginAPI.post
login_post(db0, request) ==
  LET errors == validate_login(db0, request.data)
      user == authenticate(db0, request.data.username, request.data.password)
      db1 == create_token(db0, user)
  IN  IF errors # {}
        THEN ResponseWith(HTTP_400_BAD_REQUEST, db0, [NoBody EXCEPT !.errors = errors])
      ELSE ResponseWith(HTTP_200_OK, db1,
                        user_and_token(user, request, token_of(db1)))

\* Variant: any authenticated user may write
user_permission_classes_authenticated == {"IsAuthenticatedOrReadOnly"}

\* permission_classes and queryset of UserViewSet
user_permission_classes == {"IsUserOrReadOnly"}

\* Variant: the queryset holds the active users only
user_queryset_active(db0) == {u \in db0.users : db0.is_active[u]}

\* queryset of UserViewSet: User.objects.all()
user_queryset(db0) == db0.users

\* Variant: the destroy of ModelViewSet, not overridden: the row is deleted
\* with its memberships and its playlists
user_destroy_hard(db0, request, pk) ==
  LET found == retrieve_object(db0, user_permission_classes, user_queryset(db0),
                               request, pk)
  IN  IF found # HTTP_200_OK THEN Response(found, db0)
      ELSE Response(HTTP_204_NO_CONTENT,
             [db0 EXCEPT !.users = @ \ {pk},
                         !.is_active[pk] = FALSE,
                         !.artists = [r \in Releases |-> @[r] \ {pk}],
                         !.requested_artists = [r \in Releases |-> @[r] \ {pk}],
                         !.playlists = {p \in @ : db0.owner[p] # pk}])

\* UserViewSet.destroy: the soft delete
user_destroy(db0, request, pk) ==
  LET found == retrieve_object(db0, user_permission_classes, user_queryset(db0),
                               request, pk)
  IN  IF found # HTTP_200_OK THEN Response(found, db0)
      ELSE Response(HTTP_204_NO_CONTENT, [db0 EXCEPT !.is_active[pk] = FALSE])

\* Variant: the create of ModelViewSet, not overridden: a valid payload is saved
user_create_default(db0, request) ==
  LET allowed == check_permissions(user_permission_classes, request)
  IN  IF allowed # HTTP_200_OK THEN Response(allowed, db0)
      ELSE IF validate_user(db0, request.data) # {}
        THEN ResponseWith(HTTP_400_BAD_REQUEST, db0,
               [NoBody EXCEPT !.errors = validate_user(db0, request.data)])
      ELSE Response(HTTP_201_CREATED, create_user(db0, request.data))

\* UserViewSet.create: users are created by Register only
user_create(db0, request) ==
  LET allowed == check_permissions(user_permission_classes, request)
  IN  IF allowed # HTTP_200_OK THEN Response(allowed, db0)
      ELSE Response(HTTP_405_METHOD_NOT_ALLOWED, db0)

\* Variant: every user is serialized as its owner sees it
user_list_as_owner(db0, request) ==
  LET allowed == check_permissions(user_permission_classes, request)
  IN  IF allowed # HTTP_200_OK THEN Response(allowed, db0)
      ELSE ResponseWith(HTTP_200_OK, db0,
             [NoBody EXCEPT !.shown =
                UNION {to_representation(u, u) : u \in user_queryset(db0)}])

\* UserViewSet list: every user, each as shown to the requester
user_list(db0, request) ==
  LET allowed == check_permissions(user_permission_classes, request)
  IN  IF allowed # HTTP_200_OK THEN Response(allowed, db0)
      ELSE ResponseWith(HTTP_200_OK, db0,
             [NoBody EXCEPT !.shown =
                UNION {to_representation(u, request.user) : u \in user_queryset(db0)}])

\* UserViewSet retrieve
user_retrieve(db0, request, pk) ==
  LET found == retrieve_object(db0, user_permission_classes, user_queryset(db0),
                               request, pk)
  IN  IF found # HTTP_200_OK THEN Response(found, db0)
      ELSE ResponseWith(HTTP_200_OK, db0,
             [NoBody EXCEPT !.shown = to_representation(pk, request.user)])

\* UserSerializer on update of instance: the field-keyed errors of a payload.
\* The fields are required unless the update is partial; a new password needs
\* the old one, and its confirmation
validate_user_update(db0, data, instance, partial) ==
  LET fields ==
        (IF data.username = Missing
           THEN (IF partial THEN {} ELSE {<<"username", "This field is required.">>})
         ELSE IF UsersNamed(db0, data.username) \ {instance} # {}
           THEN {<<"username", "A user with that username already exists.">>}
         ELSE {})
        \cup
        (IF data.password = Missing
           THEN (IF partial THEN {} ELSE {<<"password", "This field is required.">>})
         ELSE IF Len(data.password) < MinPasswordLength
           THEN {<<"password", "This password is too short. It must contain at least 8 characters.">>}
         ELSE {})
        \cup
        (IF data.password_confirmation = Missing /\ ~partial
           THEN {<<"password_confirmation", "This field is required.">>}
         ELSE {})
  IN  IF fields # {} THEN fields
      ELSE IF data.password = Missing THEN {}
      ELSE IF data.old_password = Missing
              \/ ~check_password(data.old_password, db0.password[instance])
        THEN {<<"old_password", "Old password is incorrect.">>}
      ELSE IF data.password_confirmation # data.password
        THEN {<<"password_confirmation", "Password confirmation does not match password.">>}
      ELSE {}

\* UserSerializer.save on update: the fields given are written, the password hashed
save_user(db0, data, instance) ==
  [db0 EXCEPT
     !.username[instance] = IF data.username = Missing THEN @ ELSE data.username,
     !.password[instance] =
        IF data.password = Missing THEN @ ELSE make_password(data.password)]

\* Variant: the payload is saved whatever the serializer found
user_update_unvalidated(db0, request, pk) ==
  LET found == retrieve_object(db0, user_permission_classes, user_queryset(db0),
                               request, pk)
      errors == validate_user_update(db0, request.data, pk, request.method = "PATCH")
  IN  IF found # HTTP_200_OK THEN Response(found, db0)
      ELSE ResponseWith(IF errors # {} THEN HTTP_400_BAD_REQUEST ELSE HTTP_200_OK,
             save_user(db0, request.data, pk),
             [NoBody EXCEPT !.errors = errors,
                            !.shown = to_representation(pk, request.user)])

\* UserViewSet update (PUT) and partial_update (PATCH)
user_update(db0, request, pk) ==
  LET found == retrieve_object(db0, user_permission_classes, user_queryset(db0),
                               request, pk)
      errors == validate_user_update(db0, request.data, pk, request.method = "PATCH")
  IN  IF found # HTTP_200_OK THEN Response(found, db0)
      ELSE IF errors # {}
        THEN ResponseWith(HTTP_400_BAD_REQUEST, db0, [NoBody EXCEPT !.errors = errors])
      ELSE ResponseWith(HTTP_200_OK, save_user(db0, request.data, pk),
             [NoBody EXCEPT !.shown = to_representation(pk, request.user)])

----------------------------------------------------------------------------
(* Requests: one step per HTTP request *)

\* Who may send a request: nobody, or a user whose token resolves, an active one
Actors == {u \in db.users : db.is_active[u]} \cup {Anonymous}
TitleInputs == Titles \cup {Missing}
AlbumInputs == AlbumIds \cup {None}
UserIdInputs == (1..(MaxUsers + 1)) \cup {None}
SongIdInputs == (1..(MaxSongs + 1)) \cup {None}
OwnerInputs == UserIds \cup {None}

NoRequest == [op |-> "none", kind |-> "", pk |-> None,
              request |-> Request(Anonymous, "GET", NoData), status |-> None,
              body |-> NoBody]

\* Requests are served one at a time: the handler runs to its response, and the
\* next request is taken once that response has been sent
Idle == last = NoRequest

\* What a response shows of a release when it shows none
NoView == [artists |-> {}, requested_artists |-> {}]

\* A worker that serves no request, and all workers so
Waiting == [pc |-> "idle", op |-> "none", kind |-> "", pk |-> None,
            request |-> Request(Anonymous, "GET", NoData), status |-> None,
            seen |-> NoView, overlaps |-> {}]
NotRunning == [w \in Workers |-> Waiting]

Step(op, kind, pk, request, response) ==
  /\ UNCHANGED running
  /\ db' = response.db
  /\ pre' = db
  /\ last' = [op |-> op, kind |-> kind, pk |-> pk, request |-> request,
              status |-> response.status, body |-> response.body]

ReleaseCreate ==
  /\ Idle
  /\ \E user \in Actors, kind \in Kinds, title \in TitleInputs, album \in AlbumInputs :
       LET request == Request(user, "POST", [title |-> title, album |-> album])
       IN  /\ db.next_id[kind] \in Ids(kind)
           /\ kind = "album" => album = None
           /\ Step("create", kind, None, request, release_create(db, request, kind))

ReleaseUpdate ==
  /\ Idle
  /\ \E user \in Actors, kind \in Kinds, method \in {"PUT", "PATCH"},
        title \in TitleInputs, album \in AlbumInputs :
       \E pk \in Ids(kind) :
         LET request == Request(user, method, [title |-> title, album |-> album])
         IN  /\ kind = "album" => album = None
             /\ Step("update", kind, pk, request, release_update(db, request, kind, pk))

ReleaseDestroy ==
  /\ Idle
  /\ \E user \in Actors, kind \in Kinds, on_delete \in {"CASCADE", "SET_NULL"} :
       \E pk \in Ids(kind) :
         LET request == Request(user, "DELETE", NoData)
         IN  Step("destroy", kind, pk, request,
                  release_destroy(db, request, kind, pk, on_delete))

ManageRequestedArtists ==
  /\ Idle
  /\ \E user \in Actors, kind \in Kinds, method \in {"POST", "DELETE"},
        artist_id \in UserIdInputs :
       \E pk \in Ids(kind) :
         LET request == Request(user, method, [artist_id |-> artist_id])
         IN  Step("manage_requested_artists", kind, pk, request,
                  manage_requested_artists(db, request, kind, pk))

ConfirmCurrentUserAsArtist ==
  /\ Idle
  /\ \E user \in Actors, kind \in Kinds :
       \E pk \in Ids(kind) :
         LET request == Request(user, "POST", NoData)
         IN  Step("confirm_current_user_as_artist", kind, pk, request,
                  confirm_current_user_as_artist(db, request, kind, pk))

RemoveCurrentUserAsArtist ==
  /\ Idle
  /\ \E user \in Actors, kind \in Kinds :
       \E pk \in Ids(kind) :
         LET request == Request(user, "DELETE", NoData)
         IN  Step("remove_current_user_as_artist", kind, pk, request,
                  remove_current_user_as_artist(db, request, kind, pk))

PlaylistCreate ==
  /\ Idle
  /\ db.next_id["playlist"] \in PlaylistIds
  /\ \E user \in Actors, title \in TitleInputs, owner \in OwnerInputs :
       LET request == Request(user, "POST", [title |-> title, owner |-> owner])
       IN  Step("create", "playlist", None, request, playlist_create(db, request))

PlaylistRetrieve ==
  /\ Idle
  /\ \E user \in Actors, pk \in PlaylistIds :
       LET request == Request(user, "GET", NoData)
       IN  Step("retrieve", "playlist", pk, request,
                playlist_retrieve(db, request, pk))

PlaylistUpdate ==
  /\ Idle
  /\ \E user \in Actors, pk \in PlaylistIds, method \in {"PUT", "PATCH"},
        title \in TitleInputs, owner \in OwnerInputs :
       LET request == Request(user, method, [title |-> title, owner |-> owner])
       IN  Step("update", "playlist", pk, request,
                playlist_update(db, request, pk))

PlaylistDestroy ==
  /\ Idle
  /\ \E user \in Actors, pk \in PlaylistIds :
       LET request == Request(user, "DELETE", NoData)
       IN  Step("destroy", "playlist", pk, request,
                playlist_destroy(db, request, pk))

ManageSongs ==
  /\ Idle
  /\ \E user \in Actors, pk \in PlaylistIds, method \in {"POST", "DELETE"},
        song_id \in SongIdInputs :
       LET request == Request(user, method, [song_id |-> song_id])
       IN  Step("manage_songs", "playlist", pk, request,
                manage_songs(db, request, pk))

UsernameInputs == Usernames \cup {Missing}
PasswordInputs == Passwords \cup {Missing}
BirthDateInputs == {Missing, "yesterday", "tomorrow"}

Register ==
  /\ Idle
  /\ db.next_id["user"] \in UserIds
  /\ Len(db.tokens) < MaxTokens
  /\ \E username \in UsernameInputs, password \in PasswordInputs,
        password_confirmation \in PasswordInputs, birth_date \in BirthDateInputs :
       LET request == Request(Anonymous, "POST",
                        [username |-> username, password |-> password,
                         password_confirmation |-> password_confirmation,
                         birth_date |-> birth_date])
       IN  Step("register", "user", None, request, registration_post(db, request))

Login ==
  /\ Idle
  /\ Len(db.tokens) < MaxTokens
  /\ \E username \in UsernameInputs, password \in PasswordInputs :
       LET request == Request(Anonymous, "POST",
                        [username |-> username, password |-> password])
       IN  Step("login", "user", None, request, login_post(db, request))

UserDestroy ==
  /\ Idle
  /\ \E user \in Actors, pk \in UserIds :
       LET request == Request(user, "DELETE", NoData)
       IN  Step("destroy", "user", pk, request, user_destroy(db, request, pk))

\* password, password_confirmation and old_password of an update payload
PasswordChangeInputs ==
  {<<Missing, Missing, old>> : old \in {Missing, "old_password"}}
  \cup {<<"new_password", conf, old>> :
          conf \in {Missing, "new_password", "pass"},
          old \in {Missing, "old_password", "new_password"}}
  \cup {<<"old_password", "old_password", "new_password">>}
  \cup {<<"pass", "pass", old>> : old \in {"old_password", "new_password"}}

UserCreate ==
  /\ Idle
  /\ \E user \in Actors, username \in UsernameInputs, password \in PasswordInputs :
       LET request == Request(user, "POST",
                        [username |-> username, password |-> password,
                         password_confirmation |-> password,
                         birth_date |-> Missing])
       IN  Step("create", "user", None, request, user_create(db, request))

UserList ==
  /\ Idle
  /\ \E user \in Actors :
       LET request == Request(user, "GET", NoData)
       IN  Step("list", "user", None, request, user_list(db, request))

UserRetrieve ==
  /\ Idle
  /\ \E user \in Actors, pk \in UserIds :
       LET request == Request(user, "GET", NoData)
       IN  Step("retrieve", "user", pk, request, user_retrieve(db, request, pk))

UserUpdate ==
  /\ Idle
  /\ \E user \in Actors, pk \in UserIds, method \in {"PUT", "PATCH"},
        username \in UsernameInputs, change \in PasswordChangeInputs :
       LET request == Request(user, method,
                        [username |-> username, password |-> change[1],
                         password_confirmation |-> change[2],
                         old_password |-> change[3]])
       IN  Step("update", "user", pk, request, user_update(db, request, pk))

\* The response is sent; nothing of the request outlives it but the database
Respond ==
  /\ last # NoRequest
  /\ last' = NoRequest
  /\ pre' = db
  /\ UNCHANGED <<db, running>>

----------------------------------------------------------------------------
(* Requests served side by side: one step per database statement *)

\* ReleaseMixin.perform_create, first statement: serializer.save() stores the
\* release; its artists are the rows of a relationship table, none yet
perform_create_save(db0, request, kind) ==
  LET entity_instance == <<kind, db0.next_id[kind]>>
  IN  save_release(
        [db0 EXCEPT !.releases = @ \cup {entity_instance},
                    !.next_id[kind] = @ + 1],
        request, entity_instance)

\* ReleaseMixin.perform_create, second statement: artists.add(request.user)
perform_create_add(db0, entity_instance, user) ==
  [db0 EXCEPT !.artists[entity_instance] = @ \cup {user}]

\* CreateModelMixin.create up to perform_create: permissions and validation
release_create_checks(db0, request, kind) ==
  LET allowed == check_permissions(release_permission_classes, request)
  IN  IF allowed # HTTP_200_OK THEN allowed
      ELSE IF ~validate_release(db0, request, kind, FALSE)
        THEN HTTP_400_BAD_REQUEST
      ELSE HTTP_201_CREATED

\* RetrieveModelMixin.retrieve of a release: what the response shows of it
release_retrieve(db0, request, kind, pk) ==
  LET entity == <<kind, pk>>
      found == retrieve_object(db0, release_permission_classes,
                               release_queryset(db0, kind), request, entity)
  IN  IF found # HTTP_200_OK THEN [status |-> found, seen |-> NoView]
      ELSE [status |-> HTTP_200_OK,
            seen |-> [artists |-> db0.artists[entity],
                      requested_artists |-> db0.requested_artists[entity]]]

\* ReleaseMixin.manage_requested_artists before a helper is called: get_object,
\* the artist_id of the body, the user it names
manage_requested_artists_lookup(db0, request, kind, pk) ==
  LET entity == <<kind, pk>>
      found == retrieve_object(db0, release_permission_classes,
                               release_queryset(db0, kind), request, entity)
      artist_id == request.data.artist_id
  IN  IF found # HTTP_200_OK THEN found
      ELSE IF artist_id = None THEN HTTP_400_BAD_REQUEST
      ELSE IF artist_id \notin db0.users THEN HTTP_404_NOT_FOUND
      ELSE HTTP_200_OK

\* Variant: the stored invitations are replaced by the new one
manage_requested_artists_call_overwriting(db0, request, kind, pk) ==
  IF request.method = "POST"
    THEN Response(HTTP_200_OK,
           [db0 EXCEPT !.requested_artists[<<kind, pk>>] = {request.data.artist_id}])
  ELSE remove_artist_from_requested(db0, <<kind, pk>>, request.data.artist_id,
                                    request.user)

\* ReleaseMixin.manage_requested_artists, the helper the method selects
manage_requested_artists_call(db0, request, kind, pk) ==
  IF request.method = "POST"
    THEN add_artist_to_requested(db0, <<kind, pk>>, request.data.artist_id,
                                 request.user)
  ELSE remove_artist_from_requested(db0, <<kind, pk>>, request.data.artist_id,
                                    request.user)

\* ReleaseMixin.confirm_current_user_as_artist before the helper: get_object
\* with the IsRequestedArtist check
confirm_current_user_as_artist_lookup(db0, request, kind, pk) ==
  retrieve_object(db0, confirm_permission_classes, release_queryset(db0, kind),
                  request, <<kind, pk>>)

\* ReleaseMixin.confirm_current_user_as_artist, the helper
confirm_current_user_as_artist_call(db0, request, kind, pk) ==
  confirm_user_as_artist(db0, <<kind, pk>>, request.user)

\* PlaylistViewSet.manage_songs before a helper is called
manage_songs_lookup(db0, request, pk) ==
  LET found == retrieve_object(db0, playlist_permission_classes,
                               playlist_get_queryset(db0, request), request, pk)
      song_id == request.data.song_id
  IN  IF found # HTTP_200_OK THEN found
      ELSE IF song_id = None THEN HTTP_400_BAD_REQUEST
      ELSE IF <<"song", song_id>> \notin db0.releases THEN HTTP_404_NOT_FOUND
      ELSE HTTP_200_OK

\* PlaylistViewSet.manage_songs, the helper the method selects
manage_songs_call(db0, request, pk) ==
  IF request.method = "POST"
    THEN add_song_to_playlist(db0, pk, request.data.song_id)
  ELSE remove_song_from_playlist(db0, pk, request.data.song_id)

\* The workers that have taken a request and not yet answered it
InFlight == {o \in Workers : running[o].pc \notin {"idle", "done", "crashed"}}

\* Worker w takes a request and is left at statement pc of its handler;
\* `overlaps` remembers which requests were being served at the same time
Take(w, pc, op, kind, pk, request, status, seen) ==
  /\ running[w].pc = "idle"
  /\ running' = [o \in Workers |->
       IF o = w
         THEN [pc |-> pc, op |-> op, kind |-> kind, pk |-> pk,
               request |-> request, status |-> status, seen |-> seen,
               overlaps |-> InFlight]
       ELSE IF o \in InFlight
         THEN [running[o] EXCEPT !.overlaps = @ \cup {w}]
       ELSE running[o]]

\* Worker w has executed the last statement of its handler
Return(w, status) ==
  running' = [running EXCEPT ![w].pc = "done", ![w].status = status]

\* A request that passes the checks of its handler goes on to statement pc (one
\* that fails them is answered at once and has written nothing)
GoOn(w, checked, pc, op, kind, pk, request) ==
  /\ checked = HTTP_200_OK
  /\ Take(w, pc, op, kind, pk, request, None, NoView)

\* The release created is the first of the catalog
PerformCreateSave(w) ==
  /\ \E user \in Actors, kind \in Kinds :
       LET request == Request(user, "POST", [title |-> "Old title", album |-> None])
           checked == release_create_checks(db, request, kind)
       IN  /\ db.releases = {}
           /\ db.next_id[kind] \in Ids(kind)
           /\ checked = HTTP_201_CREATED
           /\ Take(w, "artists.add", "create", kind, db.next_id[kind], request,
                   None, NoView)
           /\ db' = perform_create_save(db, request, kind)
  /\ UNCHANGED <<pre, last>>

PerformCreateAdd(w) ==
  /\ running[w].pc = "artists.add"
  /\ db' = perform_create_add(db, <<running[w].kind, running[w].pk>>,
                              running[w].request.user)
  /\ Return(w, HTTP_201_CREATED)
  /\ UNCHANGED <<pre, last>>

ReleaseRetrieve(w) ==
  /\ \E user \in Actors, entity \in db.releases :
       LET request == Request(user, "GET", NoData)
           shown == release_retrieve(db, request, entity[1], entity[2])
       IN  Take(w, "done", "retrieve", entity[1], entity[2], request,
                shown.status, shown.seen)
  /\ UNCHANGED <<db, pre, last>>

ManageRequestedArtistsLookup(w, methods) ==
  /\ \E user \in Actors, entity \in db.releases, method \in methods,
        artist_id \in db.users :
       LET request == Request(user, method, [artist_id |-> artist_id])
       IN  GoOn(w, manage_requested_artists_lookup(db, request, entity[1],
                                                           entity[2]),
                        "helper", "manage_requested_artists", entity[1],
                        entity[2], request)
  /\ UNCHANGED <<db, pre, last>>

ManageRequestedArtistsCall(w) ==
  /\ running[w].pc = "helper"
  /\ running[w].op = "manage_requested_artists"
  /\ LET response == manage_requested_artists_call(db, running[w].request,
                                                   running[w].kind, running[w].pk)
     IN  /\ db' = response.db
         /\ Return(w, response.status)
  /\ UNCHANGED <<pre, last>>

ConfirmLookup(w) ==
  /\ \E user \in Actors, entity \in db.releases :
       LET request == Request(user, "POST", NoData)
       IN  GoOn(w, confirm_current_user_as_artist_lookup(db, request,
                             entity[1], entity[2]),
                        "helper", "confirm_current_user_as_artist", entity[1],
                        entity[2], request)
  /\ UNCHANGED <<db, pre, last>>

ConfirmCall(w) ==
  /\ running[w].pc = "helper"
  /\ running[w].op = "confirm_current_user_as_artist"
  /\ LET response == confirm_current_user_as_artist_call(db, running[w].request,
                                                        running[w].kind, running[w].pk)
     IN  /\ db' = response.db
         /\ Return(w, response.status)
  /\ UNCHANGED <<pre, last>>

ManageSongsLookup(w, methods) ==
  /\ \E user \in Actors, method \in methods, song_id \in SongIdInputs,
        pk \in db.playlists :
       LET request == Request(user, method, [song_id |-> song_id])
       IN  GoOn(w, manage_songs_lookup(db, request, pk), "helper",
                        "manage_songs", "playlist", pk, request)
  /\ UNCHANGED <<db, pre, last>>

ManageSongsCall(w) ==
  /\ running[w].pc = "helper"
  /\ running[w].op = "manage_songs"
  /\ LET response == manage_songs_call(db, running[w].request, running[w].pk)
     IN  /\ db' = response.db
         /\ Return(w, response.status)
  /\ UNCHANGED <<pre, last>>

\* The worker stops between two statements of a handler (its process is
\* killed, the connection to the database is lost): what it has written stays
Crash(w) ==
  /\ running[w].pc \notin {"idle", "done", "crashed"}
  /\ running' = [running EXCEPT ![w].pc = "crashed"]
  /\ UNCHANGED <<db, pre, last>>

\* The response of worker w is sent, or w is started again after it stopped,
\* and w is free for the next request
Sent(w) ==
  /\ running[w].pc \in {"done", "crashed"}
  /\ running' = [running EXCEPT ![w] = Waiting]
  /\ UNCHANGED <<db, pre, last>>

----------------------------------------------------------------------------
(* Initial states *)

FixtureUsername(u) ==
  CASE u = 1 -> "old_user" [] u = 2 -> "old_user_2" [] u = 3 -> "new_user"
    [] u = 4 -> "new_user_2" [] OTHER -> "new_user_3"

FixturePassword(u) ==
  CASE u = 1 -> "old_password" [] u = 2 -> "old_password_2" [] OTHER -> "new_password"

\* The first n users registered, nothing else stored
RegisteredUsers(n) ==
  [EmptyDb EXCEPT
     !.users = 1..n,
     !.username = [u \in UserIds |-> IF u <= n THEN FixtureUsername(u) ELSE Missing],
     !.password = [u \in UserIds |->
        IF u <= n THEN make_password(FixturePassword(u)) ELSE NoPassword],
     !.is_active = [u \in UserIds |-> u <= n],
     !.next_id["user"] = n + 1]

\* Two registered users (old_user, old_user_2) and an empty catalog
InitRelease ==
  /\ db = RegisteredUsers(2)
  /\ pre = db
  /\ last = NoRequest
  /\ running = NotRunning

NextRelease ==
  \/ ReleaseCreate
  \/ ReleaseUpdate
  \/ ReleaseDestroy
  \/ ManageRequestedArtists
  \/ ConfirmCurrentUserAsArtist
  \/ RemoveCurrentUserAsArtist
  \/ Respond

SpecRelease == InitRelease /\ [][NextRelease]_vars

\* Every user registered and a single release, a song or an album, as its
\* creation by one of them leaves it
InitCollab ==
  /\ \E kind \in Kinds, user \in UserIds :
       db = release_perform_create(RegisteredUsers(MaxUsers),
              Request(user, "POST", [title |-> "Old title", album |-> None]), kind)
  /\ pre = db
  /\ last = NoRequest
  /\ running = NotRunning

NextCollab ==
  \/ ManageRequestedArtists
  \/ ConfirmCurrentUserAsArtist
  \/ RemoveCurrentUserAsArtist
  \/ Respond

SpecCollab == InitCollab /\ [][NextCollab]_vars

\* d with n more songs stored, each as its creation by user 1 leaves it
RECURSIVE WithSongs(_, _)
WithSongs(d, n) ==
  IF n = 0 THEN d
  ELSE WithSongs(release_perform_create(d,
         Request(1, "POST", [title |-> "Old title", album |-> None]), "song"),
         n - 1)

\* Two registered users, every song stored, no playlist yet
InitPlaylist ==
  /\ db = WithSongs(RegisteredUsers(2), MaxSongs)
  /\ pre = db
  /\ last = NoRequest
  /\ running = NotRunning

NextPlaylist ==
  \/ PlaylistCreate
  \/ PlaylistRetrieve
  \/ PlaylistUpdate
  \/ PlaylistDestroy
  \/ ManageSongs
  \/ Respond

SpecPlaylist == InitPlaylist /\ [][NextPlaylist]_vars

\* Two registered users (old_user, old_user_2), no token issued yet
InitAuth ==
  /\ db = RegisteredUsers(2)
  /\ pre = db
  /\ last = NoRequest
  /\ running = NotRunning

NextAuth ==
  \/ Register
  \/ Login
  \/ UserDestroy
  \/ Respond

SpecAuth == InitAuth /\ [][NextAuth]_vars

\* Two registered users; accounts are read, edited, soft-deleted and registered
InitUser ==
  /\ db = RegisteredUsers(2)
  /\ pre = db
  /\ last = NoRequest
  /\ running = NotRunning

NextUser ==
  \/ Register
  \/ UserCreate
  \/ UserList
  \/ UserRetrieve
  \/ UserUpdate
  \/ UserDestroy
  \/ Respond

SpecUser == InitUser /\ [][NextUser]_vars

\* Two registered users and a release one of them created; artists are
\* requested and confirmed, playlists made, accounts soft-deleted
InitMember ==
  /\ \E kind \in Kinds, user \in 1..2 :
       db = release_perform_create(RegisteredUsers(2),
              Request(user, "POST", [title |-> "Old title", album |-> None]), kind)
  /\ pre = db
  /\ last = NoRequest
  /\ running = NotRunning

NextMember ==
  \/ ManageRequestedArtists
  \/ ConfirmCurrentUserAsArtist
  \/ RemoveCurrentUserAsArtist
  \/ PlaylistCreate
  \/ UserDestroy
  \/ Respond

SpecMember == InitMember /\ [][NextMember]_vars

\* Two registered users and a release one of them created; artists are
\* requested and confirmed, playlists made and their songs managed
NextManage ==
  \/ ManageRequestedArtists
  \/ ConfirmCurrentUserAsArtist
  \/ PlaylistCreate
  \/ ManageSongs
  \/ Respond

SpecManage == InitMember /\ [][NextManage]_vars

\* Two registered users and an empty catalog; the workers create releases,
\* show them, and serve the invitations to them, statement by statement
InitPartial ==
  /\ db = RegisteredUsers(2)
  /\ pre = db
  /\ last = NoRequest
  /\ running = NotRunning

NextPartial ==
  \E w \in Workers :
    \/ PerformCreateSave(w)
    \/ PerformCreateAdd(w)
    \/ ReleaseRetrieve(w)
    \/ ManageRequestedArtistsLookup(w, {"POST", "DELETE"})
    \/ ManageRequestedArtistsCall(w)
    \/ ConfirmLookup(w)
    \/ ConfirmCall(w)
    \/ Crash(w)
    \/ Sent(w)

SpecPartial == InitPartial /\ [][NextPartial]_vars

\* d with one more song stored than requests may create (old_song_2 of the
\* tests beside old_song), its only artist having left it
OneMoreSong(d) ==
  LET song == <<"song", MaxSongs + 1>>
  IN  [d EXCEPT !.releases = @ \cup {song},
                !.title = @ @@ (song :> "Old title"),
                !.artists = @ @@ (song :> {}),
                !.requested_artists = @ @@ (song :> {}),
                !.album = Append(@, None),
                !.next_id["song"] = MaxSongs + 2]

\* Every user registered, the songs of user 1 and a song nobody is an artist
\* of, a playlist of user 1; song 1 has maybe a second, confirmed, artist.  Workers
\* serve additions to the requested artists and to the playlist side by side
InitAdditions ==
  /\ \E member \in UserIds :
       db = confirm_user_as_artist(
              playlist_perform_create(
                OneMoreSong(WithSongs(RegisteredUsers(MaxUsers), MaxSongs)),
                Request(1, "POST", [title |-> "Old title", owner |-> None])),
              <<"song", 1>>, member).db
  /\ pre = db
  /\ last = NoRequest
  /\ running = NotRunning

NextAdditions ==
  \E w \in Workers :
    \/ ManageRequestedArtistsLookup(w, {"POST"})
    \/ ManageRequestedArtistsCall(w)
    \/ ManageSongsLookup(w, {"POST"})
    \/ ManageSongsCall(w)
    \/ Sent(w)

SpecAdditions == InitAdditions /\ [][NextAdditions]_vars

----------------------------------------------------------------------------
(* Properties *)

\* The release the last request addressed, and who sent it
LastEntity == <<last.kind, last.pk>>
LastUser == last.request.user

ConfirmByRequested ==
  /\ last.op = "confirm_current_user_as_artist"
  /\ LastEntity \in pre.releases
  /\ LastUser \in pre.requested_artists[LastEntity]

\* C1: a user in the requested set of a release who confirms gets 200 and is
\* moved from requested_artists to artists: the requested count drops by one,
\* the artist count grows by one, and nobody else's membership changes.
C1_ConfirmMovesOne ==
  ConfirmByRequested =>
    /\ last.status = HTTP_200_OK
    /\ LastUser \in db.artists[LastEntity]
    /\ LastUser \notin db.requested_artists[LastEntity]
    /\ Cardinality(db.requested_artists[LastEntity])
         = Cardinality(pre.requested_artists[LastEntity]) - 1
    /\ Cardinality(db.artists[LastEntity])
         = Cardinality(pre.artists[LastEntity]) + 1
    /\ db.artists[LastEntity] \ {LastUser} = pre.artists[LastEntity] \ {LastUser}
    /\ db.requested_artists[LastEntity] \ {LastUser}
         = pre.requested_artists[LastEntity] \ {LastUser}

\* C2: confirm_current_user_as_artist by an authenticated user who is not in
\* the requested set of the release is answered 403 and changes nothing.
C2_ConfirmByOthersForbidden ==
  ( /\ last.op = "confirm_current_user_as_artist"
    /\ LastEntity \in pre.releases
    /\ LastUser # Anonymous
    /\ LastUser \notin pre.requested_artists[LastEntity] )
  => /\ last.status = HTTP_403_FORBIDDEN
     /\ db = pre

C2_Witness ==
  /\ last.op = "confirm_current_user_as_artist"
  /\ LastEntity \in pre.releases
  /\ LastUser \in pre.artists[LastEntity]
  /\ LastUser \notin pre.requested_artists[LastEntity]
  /\ pre.requested_artists[LastEntity] # {}
  /\ last.status = HTTP_403_FORBIDDEN

ManagePostExistingUser ==
  /\ last.op = "manage_requested_artists"
  /\ last.request.method = "POST"
  /\ LastEntity \in pre.releases
  /\ LastUser # Anonymous
  /\ last.request.data.artist_id \in pre.users

\* C3: manage_requested_artists POST naming an existing user adds that user to
\* requested_artists (200, artists unchanged) exactly when the sender is an
\* artist of the release; another authenticated sender gets 403 and nothing
\* changes.
C3_RequestOnlyByArtist ==
  ManagePostExistingUser =>
    IF LastUser \in pre.artists[LastEntity]
      THEN /\ last.status = HTTP_200_OK
           /\ db = [pre EXCEPT !.requested_artists[LastEntity] =
                                  @ \cup {last.request.data.artist_id}]
      ELSE /\ last.status = HTTP_403_FORBIDDEN
           /\ db = pre

C3_Witness ==
  /\ ManagePostExistingUser
  /\ last.status = HTTP_200_OK
  /\ last.request.data.artist_id \notin pre.requested_artists[LastEntity]
  /\ last.request.data.artist_id \in db.requested_artists[LastEntity]

RemoveByArtist ==
  /\ last.op = "remove_current_user_as_artist"
  /\ LastEntity \in pre.releases
  /\ LastUser \in pre.artists[LastEntity]

\* C5: remove_current_user_as_artist by an artist of the release is answered
\* 200 and removes that artist alone; the last artist may leave, and the
\* release stays stored with no artists.
C5_RemoveSelfNoFloor ==
  RemoveByArtist =>
    /\ last.status = HTTP_200_OK
    /\ db = [pre EXCEPT !.artists[LastEntity] = @ \ {LastUser}]
    /\ LastEntity \in db.releases

C5_Witness ==
  /\ RemoveByArtist
  /\ pre.artists[LastEntity] = {LastUser}
  /\ last.status = HTTP_200_OK
  /\ db.artists[LastEntity] = {}
  /\ LastEntity \in db.releases

DetailWrite ==
  /\ last.op \in {"update", "destroy"}
  /\ LastEntity \in pre.releases

\* C4: PUT, PATCH and DELETE on a stored song or album succeed only for a
\* current artist of it; another authenticated user gets 403, an anonymous
\* caller 401, and a rejected request changes nothing.
C4_WriteOnlyByArtist ==
  DetailWrite =>
    /\ last.status \in {HTTP_200_OK, HTTP_204_NO_CONTENT}
         => LastUser \in pre.artists[LastEntity]
    /\ (LastUser # Anonymous /\ LastUser \notin pre.artists[LastEntity])
         => (last.status = HTTP_403_FORBIDDEN /\ db = pre)
    /\ LastUser = Anonymous
         => (last.status = HTTP_401_UNAUTHORIZED /\ db = pre)

\* A user is refused on a release every artist of which has left
C4_Witness ==
  /\ DetailWrite
  /\ LastUser # Anonymous
  /\ pre.artists[LastEntity] = {}
  /\ last.status = HTTP_403_FORBIDDEN

PlaylistRequestByOther ==
  /\ last.kind = "playlist"
  /\ last.op \in {"retrieve", "update", "destroy", "manage_songs"}
  /\ last.pk \in pre.playlists
  /\ LastUser # Anonymous
  /\ LastUser # pre.owner[last.pk]

\* C6: GET, PUT, PATCH, DELETE and manage_songs on a playlist by an
\* authenticated user who does not own it are answered 404, and the playlist
\* (title, owner, songs) stays as it was.
C6_PlaylistHiddenFromOthers ==
  PlaylistRequestByOther =>
    /\ last.status = HTTP_404_NOT_FOUND
    /\ db = pre

C6_Witness ==
  /\ PlaylistRequestByOther
  /\ last.op = "manage_songs"
  /\ last.request.method = "POST"
  /\ <<"song", last.request.data.song_id>> \in pre.releases
  /\ last.request.data.song_id \notin pre.pl_songs[last.pk]
  /\ last.status = HTTP_404_NOT_FOUND

PlaylistUpdateWithOwner ==
  /\ last.kind = "playlist"
  /\ last.op = "update"
  /\ last.pk \in pre.playlists
  /\ LastUser = pre.owner[last.pk]
  /\ last.request.data.owner # None
  /\ validate_playlist(last.request, last.request.method = "PATCH")

\* C7: the owner of every stored playlist is the user who created it: create
\* makes the caller the owner whatever owner the payload names, and a valid
\* PUT or PATCH naming an owner is answered 200, writes the other fields and
\* keeps the stored owner.
C7_OwnerIsCreator ==
  /\ \A p \in db.playlists : db.owner[p] = db.creator[p]
  /\ (last.kind = "playlist" /\ last.op = "create"
        /\ last.status = HTTP_201_CREATED)
       => /\ pre.next_id["playlist"] \in db.playlists
          /\ db.owner[pre.next_id["playlist"]] = LastUser
  /\ PlaylistUpdateWithOwner
       => /\ last.status = HTTP_200_OK
          /\ db.owner[last.pk] = pre.owner[last.pk]
          /\ last.request.data.title # Missing
               => db.pl_title[last.pk] = last.request.data.title

C7_Witness ==
  /\ PlaylistUpdateWithOwner
  /\ last.request.data.owner \in pre.users \ {LastUser}
  /\ last.request.data.title \notin {Missing, pre.pl_title[last.pk]}
  /\ last.status = HTTP_200_OK
  /\ db.owner[last.pk] = LastUser
  /\ db.pl_title[last.pk] = last.request.data.title

\* manage_songs POST by the owner, naming a stored song, has just succeeded
SongJustAdded ==
  /\ last.op = "manage_songs"
  /\ last.request.method = "POST"
  /\ last.pk \in pre.playlists
  /\ LastUser = pre.owner[last.pk]
  /\ <<"song", last.request.data.song_id>> \in pre.releases

\* The DELETE of the same song by the same user, sent next
ThenRemoved ==
  manage_songs(db, Request(LastUser, "DELETE", last.request.data), last.pk)

\* C8 as stated: for any stored song, POST then DELETE of it leaves the
\* playlist's songs as they were before the two requests.
C8_AddRemoveRoundTripAnySong ==
  SongJustAdded =>
    /\ last.status = HTTP_200_OK
    /\ ThenRemoved.status = HTTP_200_OK
    /\ ThenRemoved.db.pl_songs[last.pk] = pre.pl_songs[last.pk]

\* C8: for a stored song that is not yet in the playlist, POST then DELETE of
\* it leaves the playlist's songs as they were before the two requests.
C8_AddRemoveRoundTrip ==
  (SongJustAdded /\ last.request.data.song_id \notin pre.pl_songs[last.pk]) =>
    /\ last.status = HTTP_200_OK
    /\ last.request.data.song_id \in db.pl_songs[last.pk]
    /\ ThenRemoved.status = HTTP_200_OK
    /\ ThenRemoved.db.pl_songs[last.pk] = pre.pl_songs[last.pk]

C8_Witness ==
  /\ SongJustAdded
  /\ last.request.data.song_id \notin pre.pl_songs[last.pk]
  /\ last.request.data.song_id \in db.pl_songs[last.pk]
  /\ ThenRemoved.db.pl_songs[last.pk] = pre.pl_songs[last.pk]

----------------------------------------------------------------------------
(* Registration *)

RegisterRequest == last.op = "register"

\* The payload of the last request names a user that was already stored
UsernameTaken == UsersNamed(pre, last.request.data.username) # {}

ConfirmationMatches ==
  last.request.data.password_confirmation = last.request.data.password

\* Every field of the payload passes its own rule
OtherwiseValid ==
  /\ last.request.data.username # Missing
  /\ last.request.data.password # Missing
  /\ Len(last.request.data.password) >= MinPasswordLength
  /\ last.request.data.birth_date # "tomorrow"

\* C9: a Register request with an unused username, password equal to
\* password_confirmation and otherwise valid fields returns 201, adds exactly
\* one user, and returns a non-empty token that is bound to the new user
C9_RegisterCreatesUserAndToken ==
  (RegisterRequest /\ ~UsernameTaken /\ ConfirmationMatches /\ OtherwiseValid) =>
    /\ last.status = HTTP_201_CREATED
    /\ Cardinality(db.users) = Cardinality(pre.users) + 1
    /\ pre.users \subseteq db.users
    /\ last.body.token # None
    /\ last.body.token \in DOMAIN db.tokens
    /\ last.body.token \notin DOMAIN pre.tokens
    /\ db.tokens[last.body.token] \in db.users \ pre.users
    /\ db.username[db.tokens[last.body.token]] = last.request.data.username

C9_Witness ==
  /\ RegisterRequest /\ ~UsernameTaken /\ ConfirmationMatches /\ OtherwiseValid
  /\ last.status = HTTP_201_CREATED
  /\ last.body.token # None

\* C10: a Register request whose username equals an existing user's, or whose
\* password_confirmation differs from its password, returns 400, creates no
\* user, issues no token, and leaves the users as they were
C10_InvalidRegisterChangesNothing ==
  (RegisterRequest /\ (UsernameTaken \/ ~ConfirmationMatches)) =>
    /\ last.status = HTTP_400_BAD_REQUEST
    /\ db.users = pre.users
    /\ db.tokens = pre.tokens
    /\ last.body.token = None
    /\ db = pre

C10_Witness ==
  /\ RegisterRequest
  /\ \/ UsernameTaken /\ ConfirmationMatches /\ OtherwiseValid
     \/ ~UsernameTaken /\ ~ConfirmationMatches /\ OtherwiseValid
  /\ last.status = HTTP_400_BAD_REQUEST

----------------------------------------------------------------------------
(* Login *)

\* A Login request carrying both fields
LoginRequest ==
  /\ last.op = "login"
  /\ last.request.data.username # Missing
  /\ last.request.data.password # Missing

UnknownUsername == UsersNamed(pre, last.request.data.username) = {}

WrongPassword ==
  \E u \in UsersNamed(pre, last.request.data.username) :
    ~check_password(last.request.data.password, pre.password[u])

\* The one response of a refused login
InvalidDetails ==
  [NoBody EXCEPT !.errors = {<<"non_field_errors", "Invalid Details.">>}]

\* C11: a Login with an unknown username and a Login with a stored username
\* and a wrong password get the same response, 400 with non_field_errors
\* "Invalid Details."; neither issues a token nor changes the database
C11_LoginFailuresAlike ==
  (LoginRequest /\ (UnknownUsername \/ WrongPassword)) =>
    /\ last.status = HTTP_400_BAD_REQUEST
    /\ last.body = InvalidDetails
    /\ db = pre

C11_Witness ==
  /\ LoginRequest
  /\ WrongPassword
  /\ \E u \in UsersNamed(pre, last.request.data.username) : pre.is_active[u]
  /\ last.status = HTTP_400_BAD_REQUEST
  /\ last.body = InvalidDetails

----------------------------------------------------------------------------
(* User accounts *)

\* The users the last response represents
Represented == {pair[1] : pair \in last.body.shown}

\* C12: the representation of user A returned to requester B, authenticated
\* or anonymous, has the email field exactly when B is A, and no response
\* has a password field
C12_EmailForOwnerOnly ==
  /\ \A a \in Represented : (<<a, "email">> \in last.body.shown) <=> (a = LastUser)
  /\ \A pair \in last.body.shown : pair[2] # "password"

\* A list read by a user: their own email is there, another user's is not
C12_Witness ==
  /\ last.op = "list"
  /\ LastUser # Anonymous
  /\ <<LastUser, "email">> \in last.body.shown
  /\ \E a \in Represented : a # LastUser /\ <<a, "email">> \notin last.body.shown

----------------------------------------------------------------------------
(* Creation of a release *)

ReleaseCreated ==
  /\ last.op = "create"
  /\ last.kind \in Kinds
  /\ last.status = HTTP_201_CREATED

\* The release the last create stored
NewRelease == <<last.kind, pre.next_id[last.kind]>>

\* What the creator is answered when the next request on the new release is theirs
CreatorThenUpdates ==
  release_update(db, Request(LastUser, "PATCH", [title |-> "New title", album |-> None]),
                 last.kind, NewRelease[2])

CreatorThenDestroys ==
  release_destroy(db, Request(LastUser, "DELETE", NoData), last.kind, NewRelease[2],
                  "CASCADE")

CreatorThenRequests(artist_id) ==
  manage_requested_artists(db, Request(LastUser, "POST", [artist_id |-> artist_id]),
                           last.kind, NewRelease[2])

\* C13: after a successful create of a song or album by an authenticated user
\* that user is in the artists of the new release, and so may at once update
\* it, delete it and manage its requested artists
C13_CreatorIsArtist ==
  ReleaseCreated =>
    /\ LastUser # Anonymous
    /\ NewRelease \in db.releases \ pre.releases
    /\ LastUser \in db.artists[NewRelease]
    /\ CreatorThenUpdates.status = HTTP_200_OK
    /\ CreatorThenUpdates.db.title[NewRelease] = "New title"
    /\ CreatorThenDestroys.status = HTTP_204_NO_CONTENT
    /\ NewRelease \notin CreatorThenDestroys.db.releases
    /\ \A artist_id \in db.users :
         /\ CreatorThenRequests(artist_id).status = HTTP_200_OK
         /\ artist_id \in CreatorThenRequests(artist_id).db.requested_artists[NewRelease]

\* A song created into an album of the creator
C13_Witness ==
  /\ ReleaseCreated
  /\ last.kind = "song"
  /\ last.request.data.album # None
  /\ db.artists[NewRelease] = {LastUser}
  /\ CreatorThenDestroys.status = HTTP_204_NO_CONTENT

----------------------------------------------------------------------------
(* Soft delete *)

DestroyOwnAccount ==
  /\ last.op = "destroy"
  /\ last.kind = "user"
  /\ LastUser # Anonymous
  /\ last.pk = LastUser

\* C14: DELETE on a user's detail endpoint by that user is answered 204 and
\* clears the active flag of that user, nothing else: the row stays, and so do
\* the user's artist and requested-artist memberships and playlists
C14_SoftDeleteKeepsAll ==
  DestroyOwnAccount =>
    /\ last.status = HTTP_204_NO_CONTENT
    /\ ~db.is_active[last.pk]
    /\ last.pk \in db.users
    /\ db.username[last.pk] = pre.username[last.pk]
    /\ db.artists = pre.artists
    /\ db.requested_artists = pre.requested_artists
    /\ db.playlists = pre.playlists /\ db.owner = pre.owner
    /\ db = [pre EXCEPT !.is_active[last.pk] = FALSE]

\* The account deleted is an artist of a release and owns a playlist
C14_Witness ==
  /\ DestroyOwnAccount
  /\ last.status = HTTP_204_NO_CONTENT
  /\ \E r \in pre.releases : last.pk \in db.artists[r]
  /\ \E p \in db.playlists : db.owner[p] = last.pk

UserDetailWrite ==
  /\ last.kind = "user"
  /\ last.op \in {"update", "destroy"}
  /\ last.pk \in pre.users

\* C15: PUT, PATCH and DELETE on a user's detail endpoint take effect only
\* when the sender is that user; an authenticated sender targeting another
\* user is answered 403 and the target's fields, password hash and active flag
\* stay as they were
C15_OnlySelfEdits ==
  UserDetailWrite =>
    /\ (db # pre \/ last.status \in {HTTP_200_OK, HTTP_204_NO_CONTENT})
         => LastUser = last.pk
    /\ (LastUser # Anonymous /\ LastUser # last.pk)
         => /\ last.status = HTTP_403_FORBIDDEN
            /\ db.username[last.pk] = pre.username[last.pk]
            /\ db.password[last.pk] = pre.password[last.pk]
            /\ db.is_active[last.pk] = pre.is_active[last.pk]
            /\ db = pre

\* A payload its owner could have sent is refused to another user
C15_Witness ==
  /\ UserDetailWrite
  /\ last.op = "update"
  /\ LastUser # Anonymous /\ LastUser # last.pk
  /\ validate_user_update(pre, last.request.data, last.pk,
                          last.request.method = "PATCH") = {}
  /\ last.request.data.username \notin {Missing, pre.username[last.pk]}
  /\ last.request.data.password # Missing
  /\ last.status = HTTP_403_FORBIDDEN

\* The last request was a Register that succeeded
Registered(l) == l.op = "register" /\ l.status = HTTP_201_CREATED

\* C16: users are added by Register alone. A POST to the users collection is
\* answered 405 and stores nothing, whoever sends it and whatever it carries,
\* and every step leaves as many users as there were, plus one exactly when it
\* is a successful Register; the stored users are never fewer
C16_UsersGrowByRegisterOnly ==
  [][ /\ (last'.op = "create" /\ last'.kind = "user")
           => (last'.status = HTTP_405_METHOD_NOT_ALLOWED /\ db' = db)
      /\ db.users \subseteq db'.users
      /\ Cardinality(db'.users) =
           Cardinality(db.users) + (IF Registered(last') THEN 1 ELSE 0) ]_vars

\* A payload Register would accept is sent to the users collection
C16_Witness ==
  /\ last.op = "create" /\ last.kind = "user"
  /\ validate_user(pre, last.request.data) = {}
  /\ pre.next_id["user"] \in UserIds
  /\ last.status = HTTP_405_METHOD_NOT_ALLOWED
  /\ db.users = pre.users

\* A user sends an update of their own account naming another user's username
RenameToTaken ==
  /\ last.kind = "user" /\ last.op = "update"
  /\ last.pk \in pre.users
  /\ LastUser = last.pk
  /\ UsersNamed(pre, last.request.data.username) \ {last.pk} # {}

\* C17: no two stored users, active or soft-deleted, have the same username; a
\* Register or a username update that names the username of another stored
\* user, soft-deleted ones included, is answered 400 and changes nothing
C17_UsernamesUnique ==
  /\ \A u, v \in db.users : db.username[u] = db.username[v] => u = v
  /\ \A u \in db.users : db.username[u] # Missing
  /\ (RegisterRequest /\ UsernameTaken)
       => (last.status = HTTP_400_BAD_REQUEST /\ db = pre)
  /\ RenameToTaken
       => (last.status = HTTP_400_BAD_REQUEST /\ db = pre)

\* The username asked for belongs to a soft-deleted user
C17_Witness ==
  /\ RenameToTaken
  /\ \E v \in UsersNamed(pre, last.request.data.username) : ~pre.is_active[v]
  /\ last.request.method = "PATCH"
  /\ last.request.data.password = Missing
  /\ last.status = HTTP_400_BAD_REQUEST

----------------------------------------------------------------------------
(* The artist-request workflow *)

\* C18: each pair of a stored release and a user is in one of the states
\* none, requested, confirmed: no user is both in artists and in
\* requested_artists of the same song or album
C18_OneStatePerPair ==
  \A r \in db.releases : db.artists[r] \cap db.requested_artists[r] = {}

\* Every response a user can get from one request of theirs on release r
OwnRequestsOn(u, r) ==
  {manage_requested_artists(db, Request(u, method, [artist_id |-> artist_id]),
                            r[1], r[2]) :
     method \in {"POST", "DELETE"}, artist_id \in UserIdInputs}
  \cup {confirm_current_user_as_artist(db, Request(u, "POST", NoData), r[1], r[2]),
        remove_current_user_as_artist(db, Request(u, "DELETE", NoData), r[1], r[2])}
  \cup {release_update(db, Request(u, method, [title |-> title, album |-> None]),
                       r[1], r[2]) :
          method \in {"PUT", "PATCH"}, title \in TitleInputs}

\* C19: a user who is requested on a release and is not an artist of it can
\* take themselves back to the none state by one request of their own
C19_RequestedCanDecline ==
  \A r \in db.releases :
    \A u \in db.requested_artists[r] \ db.artists[r] :
      \E response \in OwnRequestsOn(u, r) :
        /\ u \notin response.db.requested_artists[r]
        /\ u \notin response.db.artists[r]

\* manage_requested_artists POST by an artist, naming a stored user, has just
\* been answered 200
ArtistJustRequested ==
  /\ ManagePostExistingUser
  /\ LastUser \in pre.artists[LastEntity]
  /\ last.status = HTTP_200_OK

\* The same POST, sent once more
RequestedAgain ==
  manage_requested_artists(db, last.request, last.kind, last.pk)

\* C20: requesting an artist is idempotent: the same POST by the same artist,
\* sent a second time, is answered 200 and leaves requested_artists as the
\* first POST left it, with the candidate in it
C20_RequestIdempotent ==
  ArtistJustRequested =>
    /\ last.request.data.artist_id \in db.requested_artists[LastEntity]
    /\ RequestedAgain.status = HTTP_200_OK
    /\ RequestedAgain.db.requested_artists[LastEntity] = db.requested_artists[LastEntity]
    /\ RequestedAgain.db = db

\* The first POST added a candidate who was in neither set
C20_Witness ==
  /\ ArtistJustRequested
  /\ last.request.data.artist_id \notin pre.requested_artists[LastEntity]
  /\ last.request.data.artist_id \notin pre.artists[LastEntity]
  /\ RequestedAgain.status = HTTP_200_OK
  /\ RequestedAgain.db = db

\* manage_requested_artists POST by an artist, naming a user who is neither an
\* artist of the release nor requested on it
UninvolvedJustRequested ==
  /\ ManagePostExistingUser
  /\ LastUser \in pre.artists[LastEntity]
  /\ last.request.data.artist_id
       \notin pre.artists[LastEntity] \cup pre.requested_artists[LastEntity]

\* The DELETE for the same candidate by the same artist, sent next
ThenWithdrawn ==
  manage_requested_artists(db, Request(LastUser, "DELETE", last.request.data),
                           last.kind, last.pk)

\* C21: for a user not involved in a release, POST then DELETE of
\* manage_requested_artists by one artist are both answered 200 and leave
\* requested_artists as it was before the two, with artists unchanged
\* throughout: the candidate never becomes an artist
C21_RequestWithdrawRoundTrip ==
  UninvolvedJustRequested =>
    /\ last.status = HTTP_200_OK
    /\ last.request.data.artist_id \in db.requested_artists[LastEntity]
    /\ db.artists = pre.artists
    /\ ThenWithdrawn.status = HTTP_200_OK
    /\ ThenWithdrawn.db.requested_artists[LastEntity] = pre.requested_artists[LastEntity]
    /\ ThenWithdrawn.db.artists = pre.artists
    /\ ThenWithdrawn.db = pre

\* Another candidate is requested already, and stays so
C21_Witness ==
  /\ UninvolvedJustRequested
  /\ pre.requested_artists[LastEntity] # {}
  /\ db.requested_artists[LastEntity] # pre.requested_artists[LastEntity]
  /\ ThenWithdrawn.status = HTTP_200_OK
  /\ ThenWithdrawn.db.requested_artists[LastEntity] = pre.requested_artists[LastEntity]

----------------------------------------------------------------------------
(* The bodies of manage_requested_artists and manage_songs *)

ManageByArtist ==
  /\ last.op = "manage_requested_artists"
  /\ LastEntity \in pre.releases
  /\ LastUser \in pre.artists[LastEntity]

ManageSongsByOwner ==
  /\ last.op = "manage_songs"
  /\ last.pk \in pre.playlists
  /\ LastUser # Anonymous
  /\ LastUser = pre.owner[last.pk]

\* C22: for an artist of the release, manage_requested_artists is answered
\* 400 without artist_id and 404 for an artist_id no user has; for the owner
\* of the playlist, manage_songs is answered 400 without song_id and 404 for a
\* song_id no song has; POST or DELETE, the artist sets and the songs of the
\* playlist are then unchanged
C22_MissingOrUnknownTarget ==
  /\ ManageByArtist =>
       /\ last.request.data.artist_id = None
            => (last.status = HTTP_400_BAD_REQUEST /\ db = pre)
       /\ (last.request.data.artist_id # None
             /\ last.request.data.artist_id \notin pre.users)
            => (last.status = HTTP_404_NOT_FOUND /\ db = pre)
  /\ ManageSongsByOwner =>
       /\ last.request.data.song_id = None
            => (last.status = HTTP_400_BAD_REQUEST /\ db = pre)
       /\ (last.request.data.song_id # None
             /\ <<"song", last.request.data.song_id>> \notin pre.releases)
            => (last.status = HTTP_404_NOT_FOUND /\ db = pre)

\* A DELETE without song_id on a playlist that has songs
C22_Witness ==
  /\ ManageSongsByOwner
  /\ last.request.method = "DELETE"
  /\ last.request.data.song_id = None
  /\ pre.pl_songs[last.pk] # {}
  /\ last.status = HTTP_400_BAD_REQUEST
  /\ db.pl_songs = pre.pl_songs

----------------------------------------------------------------------------
(* A song's album *)

\* A song is created, or a stored song updated, with the id of a stored album
\* that does not have the acting user among its artists
SongToAlbumOfOthers ==
  /\ last.op \in {"create", "update"}
  /\ last.kind = "song"
  /\ last.op = "update" => LastEntity \in pre.releases
  /\ last.request.data.album # None
  /\ <<"album", last.request.data.album>> \in pre.releases
  /\ LastUser \notin pre.artists[<<"album", last.request.data.album>>]

\* The request passes the permission checks that come before validation
SongWriteAllowed ==
  /\ LastUser # Anonymous
  /\ last.op = "update" => LastUser \in pre.artists[LastEntity]

SongToAlbumOfOthersNoEffect ==
  /\ db.releases = pre.releases
  /\ db.album = pre.album
  /\ db.artists[<<"album", last.request.data.album>>]
       = pre.artists[<<"album", last.request.data.album>>]

\* C23 as stated: a song create or update naming a stored album the acting
\* user is not an artist of is answered 400, whoever the acting user is, and
\* no song is created, no album reference and no artist of the album changes
C23_AlbumOfOthersAlways400 ==
  SongToAlbumOfOthers =>
    /\ last.status = HTTP_400_BAD_REQUEST
    /\ SongToAlbumOfOthersNoEffect

\* C23: a song create or update naming a stored album the acting user is not
\* an artist of is answered 400 when the request passes the permission checks
\* (an authenticated user on create, an artist of the song on update), 401 for
\* nobody and 403 for a user who is not an artist of the song; in every case no
\* song is created, no album reference and no artist of the album changes
C23_AlbumOfOthersRejected ==
  SongToAlbumOfOthers =>
    /\ SongWriteAllowed => last.status = HTTP_400_BAD_REQUEST
    /\ LastUser = Anonymous => last.status = HTTP_401_UNAUTHORIZED
    /\ (LastUser # Anonymous /\ ~SongWriteAllowed)
         => last.status = HTTP_403_FORBIDDEN
    /\ SongToAlbumOfOthersNoEffect

\* An artist of a song sends it the id of an album of somebody else
C23_Witness ==
  /\ SongToAlbumOfOthers
  /\ last.op = "update"
  /\ SongWriteAllowed
  /\ last.status = HTTP_400_BAD_REQUEST
  /\ pre.album[last.pk] = None
  /\ db.album[last.pk] = None

----------------------------------------------------------------------------
(* Requests served side by side *)

\* Worker w is creating, or has just created or stopped creating, entity
Creating(w, entity) ==
  /\ running[w].op = "create"
  /\ running[w].pc \in {"artists.add", "done", "crashed"}
  /\ running[w].pk # None
  /\ entity = <<running[w].kind, running[w].pk>>

\* Worker w has been shown entity
Shown(w, entity) ==
  /\ running[w].op = "retrieve"
  /\ running[w].status = HTTP_200_OK
  /\ entity = <<running[w].kind, running[w].pk>>

\* C24: no partial write of a handler is exposed: whoever is shown a release
\* while or after it is created is shown its creator among its artists, and a
\* create that stops before its last statement leaves no release behind (the
\* move made by confirm_current_user_as_artist is one statement of its helper
\* and has no state in between)
C24_NoPartialWrite ==
  \A w \in Workers, entity \in Releases :
    Creating(w, entity) =>
      /\ \A o \in Workers :
           Shown(o, entity) => running[w].request.user \in running[o].seen.artists
      /\ running[w].pc = "crashed" => entity \notin db.releases

\* Workers w1 and w2 have answered 200 to two POSTs of op on the same target
\* that were served at the same time
AddedSideBySide(w1, w2, op) ==
  /\ w1 # w2
  /\ w2 \in running[w1].overlaps
  /\ \A w \in {w1, w2} :
       /\ running[w].op = op
       /\ running[w].pc = "done"
       /\ running[w].status = HTTP_200_OK
       /\ running[w].request.method = "POST"
  /\ running[w1].kind = running[w2].kind
  /\ running[w1].pk = running[w2].pk

\* C25: when two POSTs to manage_requested_artists of one release, sent by
\* artists and served at the same time, name different candidates, both
\* candidates are in requested_artists once both are answered; likewise both
\* songs of two such POSTs to manage_songs of one playlist are in the playlist
C25_AdditionsNotLost ==
  \A w1, w2 \in Workers :
    /\ (/\ AddedSideBySide(w1, w2, "manage_requested_artists")
        /\ running[w1].request.data.artist_id # running[w2].request.data.artist_id)
         => {running[w1].request.data.artist_id,
             running[w2].request.data.artist_id}
              \subseteq db.requested_artists[<<running[w1].kind, running[w1].pk>>]
    /\ (/\ AddedSideBySide(w1, w2, "manage_songs")
        /\ running[w1].request.data.song_id # running[w2].request.data.song_id)
         => {running[w1].request.data.song_id, running[w2].request.data.song_id}
              \subseteq db.pl_songs[running[w1].pk]

\* Two artists have invited two users to the same song at the same time
C25_Witness ==
  \E w1, w2 \in Workers :
    /\ AddedSideBySide(w1, w2, "manage_requested_artists")
    /\ running[w1].request.user # running[w2].request.user
    /\ running[w1].request.data.artist_id # running[w2].request.data.artist_id
    /\ {running[w1].request.data.artist_id, running[w2].request.data.artist_id}
         \subseteq db.requested_artists[<<running[w1].kind, running[w1].pk>>]

\* Worker o has answered 200 to a DELETE to manage_requested_artists that
\* withdrew the invitation of user to entity while worker w served its request
Withdrawn(o, w, entity, user) ==
  /\ running[o].op = "manage_requested_artists"
  /\ running[o].request.method = "DELETE"
  /\ running[o].request.data.artist_id = user
  /\ entity = <<running[o].kind, running[o].pk>>
  /\ running[o].pc = "done"
  /\ running[o].status = HTTP_200_OK
  /\ w \in running[o].overlaps
  /\ user \notin db.requested_artists[entity]

\* C26: a withdrawn invitation is not confirmed: when the DELETE of an artist
\* has taken candidate C out of requested_artists while C's confirm was being
\* served, the confirm does not add C to artists afterwards
C26_WithdrawnNotConfirmed ==
  [][\A w \in Workers, entity \in Releases :
       (/\ running[w].op = "confirm_current_user_as_artist"
        /\ entity = <<running[w].kind, running[w].pk>>
        /\ running[w].pc = "helper"
        /\ running'[w].pc = "done"
        /\ \E o \in Workers : Withdrawn(o, w, entity, running[w].request.user))
         => \/ running[w].request.user \in db.artists[entity]
            \/ running[w].request.user \notin db'.artists[entity]]_vars

----------------------------------------------------------------------------
(* Who changes the artists of a release *)

----------------------------------------------------------------------------
(* Releases without artists *)

\* Nobody is an artist of the stored release and nobody is invited to it
Orphaned(d, entity) ==
  /\ entity \in d.releases
  /\ d.artists[entity] = {}
  /\ d.requested_artists[entity] = {}

\* C28: a stored song or album with no artist and no requested artist is
\* frozen: no request of any user updates it, deletes it or adds anyone to its
\* artists or requested artists, so it is the same in every later state
C28_OrphanedFrozen ==
  [][\A entity \in Releases :
       Orphaned(db, entity) =>
         /\ Orphaned(db', entity)
         /\ db'.title[entity] = db.title[entity]
         /\ entity[1] = "song" => db'.album[entity[2]] = db.album[entity[2]]]_vars

----------------------------------------------------------------------------
(* Authorization before the body *)

ManageOnStoredRelease ==
  /\ last.op = "manage_requested_artists"
  /\ LastEntity \in pre.releases

ManageSongsOnStoredPlaylist ==
  /\ last.op = "manage_songs"
  /\ last.pk \in pre.playlists

\* C29 as stated: whatever the body holds, manage_requested_artists answers 403
\* to every caller who is not an artist of the release and manage_songs 404 to
\* every caller who does not own the playlist; 400 goes to artists and owners only
C29_AnyCallerRefusedBeforeBody ==
  /\ ManageOnStoredRelease =>
       /\ LastUser \notin pre.artists[LastEntity]
            => last.status = HTTP_403_FORBIDDEN
       /\ last.status = HTTP_400_BAD_REQUEST => LastUser \in pre.artists[LastEntity]
  /\ ManageSongsOnStoredPlaylist =>
       /\ LastUser # pre.owner[last.pk] => last.status = HTTP_404_NOT_FOUND
       /\ last.status = HTTP_400_BAD_REQUEST => LastUser = pre.owner[last.pk]

\* C29: whatever the body holds (no id, an id nothing has, a valid id),
\* manage_requested_artists answers 403 to an authenticated caller who is not
\* an artist of the release, manage_songs answers 404 to an authenticated
\* caller who does not own the playlist, and both answer 401 to a caller who
\* is not authenticated; 400, and 404 for the candidate of a release, go to
\* artists and owners only; a refused request changes nothing
C29_RefusedBeforeBody ==
  /\ ManageOnStoredRelease =>
       /\ LastUser = Anonymous => last.status = HTTP_401_UNAUTHORIZED
       /\ (LastUser # Anonymous /\ LastUser \notin pre.artists[LastEntity])
            => last.status = HTTP_403_FORBIDDEN
       /\ last.status \in {HTTP_400_BAD_REQUEST, HTTP_404_NOT_FOUND}
            => LastUser \in pre.artists[LastEntity]
       /\ LastUser \notin pre.artists[LastEntity] => db = pre
  /\ ManageSongsOnStoredPlaylist =>
       /\ LastUser = Anonymous => last.status = HTTP_401_UNAUTHORIZED
       /\ (LastUser # Anonymous /\ LastUser # pre.owner[last.pk])
            => last.status = HTTP_404_NOT_FOUND
       /\ last.status = HTTP_400_BAD_REQUEST => LastUser = pre.owner[last.pk]
       /\ LastUser # pre.owner[last.pk] => db = pre

\* A user who owns no part of either sends a body without the id: 403 from the
\* release, or 404 from the playlist of somebody else
C29_Witness ==
  \/ /\ ManageOnStoredRelease
     /\ LastUser # Anonymous
     /\ LastUser \notin pre.artists[LastEntity]
     /\ last.request.data.artist_id = None
     /\ last.status = HTTP_403_FORBIDDEN
  \/ /\ ManageSongsOnStoredPlaylist
     /\ LastUser # Anonymous
     /\ LastUser # pre.owner[last.pk]
     /\ last.request.data.song_id = None
     /\ last.status = HTTP_404_NOT_FOUND

----------------------------------------------------------------------------
(* Soft-deleted users stay visible *)

\* The users a list response shows
Listed(response) == {shown[1] : shown \in response.body.shown}

\* A user has just deleted their own account
OwnAccountDeleted ==
  /\ last.op = "destroy"
  /\ last.kind = "user"
  /\ LastUser = last.pk
  /\ last.status = HTTP_204_NO_CONTENT

\* C30: a soft-deleted user stays visible: after a user has deleted their own
\* account, the users list shows that user to every requester and as many
\* users as before, and the detail of that user is answered 200; so is every
\* later list or detail request, whoever of the stored users is inactive
C30_SoftDeletedStaysVisible ==
  /\ OwnAccountDeleted =>
       \A requester \in Actors :
         LET request == Request(requester, "GET", NoData)
         IN  /\ user_list(db, request).status = HTTP_200_OK
             /\ last.pk \in Listed(user_list(db, request))
             /\ Cardinality(Listed(user_list(db, request)))
                  = Cardinality(Listed(user_list(pre, request)))
             /\ user_retrieve(db, request, last.pk).status = HTTP_200_OK
  /\ (last.op = "list" /\ last.kind = "user")
       => /\ last.status = HTTP_200_OK
          /\ {shown[1] : shown \in last.body.shown} = pre.users
  /\ (last.op = "retrieve" /\ last.kind = "user" /\ last.pk \in pre.users)
       => /\ last.status = HTTP_200_OK
          /\ last.pk \in {shown[1] : shown \in last.body.shown}

\* The list is requested after a user has deleted their account, and shows them
C30_Witness ==
  /\ last.op = "list"
  /\ last.kind = "user"
  /\ \E user \in pre.users :
       /\ ~pre.is_active[user]
       /\ user \in {shown[1] : shown \in last.body.shown}

====
